---------------------------- MODULE Spec2Model ----------------------------
(***************************************************************************)
(* A model of idblib.py: the FileSection window, binary_search, the B-tree *)
(* page search, the cursor (next / prev), BTree.find and the ID0File typed *)
(* overlay.  Byte strings are sequences of numbers in 0..255 and compare   *)
(* as Python bytes do; a page is the decoded BasePage (preceeding, index). *)
(***************************************************************************)
EXTENDS Integers, Sequences, FiniteSets, TLC

VARIABLES
  db,        \* the BTree: [firstindex, pages], pages[n] = the decoded page n
  stack,     \* Cursor.stack: a sequence of frames [page, ix]
  cur,       \* what the caller holds: "unset", "cursor" or "none" (find returned None)
  q,         \* the find() call that produced the cursor, until the cursor moves
  ops,       \* the last (at most two) cursor calls: "next", "prev"
  prev1,     \* Cursor.stack before the last cursor call
  prev2,     \* Cursor.stack before the last two cursor calls
  err,       \* the exception the last call raised, or "none"
  trail,     \* keys seen by a scan find('ge', b'') ; next() ; next() ...
  fpos,      \* the parent file object's position (shared by its FileSections)
  wins,      \* the FileSection objects: [open, start, end, curpos]
  fsl,       \* the last FileSection call: [op, w, n, pos0, data, raised];
             \* n is the size of a read and, for a seek, -1, 0 or 1 as its target
             \* is before 0, in [0, end-start] or after end-start; pos0 is the
             \* position a read started from
  bs_a,      \* binary_search: the list a
  bs_k,      \* binary_search: the key k
  bs_first,  \* binary_search: first
  bs_last,   \* binary_search: last
  bs_pc,     \* binary_search: "loop" or "done"
  bs_n,      \* binary_search: iterations of the while loop so far
  bs_ret,    \* binary_search: the value returned
  magic,     \* idb.magic, which sets ID0File's wordsize and keyfmt
  ov         \* the last ID0File call: [op, args, res]

treevars == <<db, stack, cur, q, ops, prev1, prev2, err, trail>>

fsvars == <<fpos, wins, fsl>>

bsvars == <<bs_a, bs_k, bs_first, bs_last, bs_pc, bs_n, bs_ret>>

ovvars == <<magic, ov>>

vars == <<treevars, fsvars, bsvars, ovvars>>

----------------------------------------------------------------------------
(* Byte strings *)

\* the number of keys the trees and the queries are drawn from
NKeys == 9

\* Python's bytes a < b: lexicographic, a proper prefix sorts first
KeyLess(a, b) ==
  \E i \in 1..Len(b) :
     /\ i <= Len(a) + 1
     /\ \A j \in 1..(i - 1) : a[j] = b[j]
     /\ (i = Len(a) + 1 \/ a[i] < b[i])

\* the i-th byte string over the bytes 1, 2 in length-then-lexicographic order:
\* b'', 01, 02, 0101, 0102, 0201, 0202, 010101, ...
RECURSIVE KeyOf(_)
KeyOf(i) == IF i = 0 THEN <<>>
            ELSE Append(KeyOf((i - 1) \div 2), ((i - 1) % 2) + 1)

KeyUniverse == { KeyOf(i) : i \in 0..(NKeys - 1) }

MinKey(S) == CHOOSE k \in S : \A j \in S : ~KeyLess(j, k)

RECURSIVE SortKeys(_)
SortKeys(S) == IF S = {} THEN <<>>
              ELSE <<MinKey(S)>> \o SortKeys(S \ {MinKey(S)})

Front(s) == SubSeq(s, 1, Len(s) - 1)

Last(s) == s[Len(s)]

----------------------------------------------------------------------------
(* binary_search *)

\* the loop body with first = mid in place of first = mid+1
bs_step_NoPlusOne(a, k, first, last) ==
  LET mid == (first + last) \div 2 IN
    IF KeyLess(k, a[mid + 1].key)
    THEN [first |-> first, last |-> mid]
    ELSE [first |-> mid, last |-> last]

\* one iteration of the while loop: the new (first, last)
bs_step(a, k, first, last) ==
  LET mid == (first + last) \div 2 IN
    IF KeyLess(k, a[mid + 1].key)
    THEN [first |-> first, last |-> mid]
    ELSE [first |-> mid + 1, last |-> last]

RECURSIVE bs_loop(_, _, _, _)
bs_loop(a, k, first, last) ==
  IF first < last
  THEN LET s == bs_step(a, k, first, last) IN bs_loop(a, k, s.first, s.last)
  ELSE first - 1

binary_search(a, k) == bs_loop(a, k, 0, Len(a))

----------------------------------------------------------------------------
(* BTree.BasePage *)

isleaf(page) == page.preceeding = 0

isindex(page) == page.preceeding # 0

\* getpage that gives, for entry ix, the child to the left of the entry
getpage_Left(page, ix) == IF ix <= 0 THEN page.preceeding ELSE page.index[ix].page

getpage(page, ix) == IF ix < 0 THEN page.preceeding ELSE page.index[ix + 1].page

\* self.index[ix] of a Python list: a negative ix counts from the end, and an
\* ix outside -len..len-1 raises IndexError
InRange(page, ix) == -Len(page.index) <= ix /\ ix < Len(page.index)

PyIndex(page, ix) == IF ix < 0 THEN page.index[Len(page.index) + ix + 1]
                     ELSE page.index[ix + 1]

\* PageFind with the index-page test made before the equality test
PageFind_RecurseFirst(page, key) ==
  LET i == binary_search(page.index, key) IN
    IF i < 0
    THEN IF isindex(page) THEN [act |-> "recurse", ix |-> -1]
         ELSE [act |-> "gt", ix |-> 0]
    ELSE IF isindex(page) THEN [act |-> "recurse", ix |-> i]
    ELSE IF page.index[i + 1].key = key THEN [act |-> "eq", ix |-> i]
    ELSE [act |-> "lt", ix |-> i]

PageFind(page, key) ==
  LET i == binary_search(page.index, key) IN
    IF i < 0
    THEN IF isindex(page) THEN [act |-> "recurse", ix |-> -1]
         ELSE [act |-> "gt", ix |-> 0]
    ELSE IF page.index[i + 1].key = key THEN [act |-> "eq", ix |-> i]
    ELSE IF isindex(page) THEN [act |-> "recurse", ix |-> i]
    ELSE [act |-> "lt", ix |-> i]

readpage(t, nr) == t.pages[nr]

----------------------------------------------------------------------------
(* BTree.Cursor *)

Frame(pn, ix) == [page |-> pn, ix |-> ix]

\* next(), leaf branch: while self.stack and ix==len(page.index): pop, ix += 1
RECURSIVE NextAscend(_, _, _, _)
NextAscend(t, st, pn, ix) ==
  IF st # <<>> /\ ix = Len(readpage(t, pn).index)
  THEN NextAscend(t, Front(st), Last(st).page, Last(st).ix + 1)
  ELSE IF ix < Len(readpage(t, pn).index) THEN Append(st, Frame(pn, ix))
  ELSE st

\* next(), index branch: while page.isindex(): push (page, -1), read preceeding;
\* then push (leaf, 0)
RECURSIVE NextDescend(_, _, _)
NextDescend(t, st, pn) ==
  IF isindex(readpage(t, pn))
  THEN NextDescend(t, Append(st, Frame(pn, -1)), getpage(readpage(t, pn), -1))
  ELSE Append(st, Frame(pn, 0))

\* Cursor.next without the ix += 1 of the leaf branch
CursorNext_NoAdvance(t, st) ==
  IF st = <<>> THEN [err |-> "IndexError", stack |-> st]
  ELSE LET pn == Last(st).page
           ix == Last(st).ix
       IN IF isleaf(readpage(t, pn))
          THEN [err |-> "none", stack |-> NextAscend(t, Front(st), pn, ix)]
          ELSE [err |-> "none",
                stack |-> NextDescend(t, st, getpage(readpage(t, pn), ix))]

\* Cursor.next that starts over at the first record when the stack is empty
CursorNext_Rewind(t, st) ==
  IF st = <<>> THEN [err |-> "none", stack |-> NextDescend(t, st, t.firstindex)]
  ELSE LET pn == Last(st).page
           ix == Last(st).ix
       IN IF isleaf(readpage(t, pn))
          THEN [err |-> "none", stack |-> NextAscend(t, Front(st), pn, ix + 1)]
          ELSE IF ~InRange(readpage(t, pn), ix) /\ ix >= 0
          THEN [err |-> "IndexError", stack |-> st]
          ELSE [err |-> "none",
                stack |-> NextDescend(t, st, getpage(readpage(t, pn), ix))]

\* Cursor.next: the new stack, or IndexError from self.stack.pop() on an empty stack
CursorNext(t, st) ==
  IF st = <<>> THEN [err |-> "IndexError", stack |-> st]
  ELSE LET pn == Last(st).page
           ix == Last(st).ix
       IN IF isleaf(readpage(t, pn))
          THEN [err |-> "none", stack |-> NextAscend(t, Front(st), pn, ix + 1)]
          ELSE IF ~InRange(readpage(t, pn), ix) /\ ix >= 0
          THEN [err |-> "IndexError", stack |-> st]
          ELSE [err |-> "none",
                stack |-> NextDescend(t, st, getpage(readpage(t, pn), ix))]

\* prev(), leaf branch: while self.stack and ix<0: pop
RECURSIVE PrevAscend(_, _, _, _)
PrevAscend(t, st, pn, ix) ==
  IF st # <<>> /\ ix < 0
  THEN PrevAscend(t, Front(st), Last(st).page, Last(st).ix)
  ELSE IF ix >= 0 THEN Append(st, Frame(pn, ix))
  ELSE st

\* prev(), index branch: while page.isindex(): read the child at ix, push it
\* with ix = len(page.index)-1
RECURSIVE PrevDescend(_, _, _, _)
PrevDescend(t, st, pn, ix) ==
  IF isindex(readpage(t, pn))
  THEN LET child == getpage(readpage(t, pn), ix)
           cix == Len(readpage(t, child).index) - 1
       IN PrevDescend(t, Append(st, Frame(child, cix)), child, cix)
  ELSE st

\* Cursor.prev whose index branch goes down the leftmost spine, as next() does
CursorPrev_Leftmost(t, st) ==
  IF st = <<>> THEN [err |-> "IndexError", stack |-> st]
  ELSE LET pn == Last(st).page
           ix == Last(st).ix - 1
       IN IF isleaf(readpage(t, pn))
          THEN [err |-> "none", stack |-> PrevAscend(t, Front(st), pn, ix)]
          ELSE [err |-> "none",
                stack |-> NextDescend(t, Append(Front(st), Frame(pn, ix)),
                                      getpage(readpage(t, pn), ix))]

\* Cursor.prev: the new stack, or IndexError from self.stack.pop() on an empty stack
CursorPrev(t, st) ==
  IF st = <<>> THEN [err |-> "IndexError", stack |-> st]
  ELSE LET pn == Last(st).page
           ix == Last(st).ix - 1
       IN IF isleaf(readpage(t, pn))
          THEN [err |-> "none", stack |-> PrevAscend(t, Front(st), pn, ix)]
          ELSE [err |-> "none",
                stack |-> PrevDescend(t, Append(Front(st), Frame(pn, ix)), pn, ix)]

eof(st) == Len(st) = 0

\* getkey / getval: self.stack[-1], then page.index[ix]
CursorDefined(t, st) ==
  /\ st # <<>>
  /\ InRange(readpage(t, Last(st).page), Last(st).ix)

getkey(t, st) == PyIndex(readpage(t, Last(st).page), Last(st).ix).key

getval(t, st) == PyIndex(readpage(t, Last(st).page), Last(st).ix).val

----------------------------------------------------------------------------
(* BTree.find *)

\* the descent: push (page, ix) for each page until act is not 'recurse'
RECURSIVE Descend(_, _, _, _)
Descend(t, pn, key, st) ==
  LET r == PageFind(readpage(t, pn), key)
      st2 == Append(st, Frame(pn, r.ix))
  IN IF r.act # "recurse" THEN [act |-> r.act, stack |-> st2]
     ELSE Descend(t, getpage(readpage(t, pn), r.ix), key, st2)

\* the relation table with 'le' left out of the (lt, le) / gt row
FindAdjust_LeMissing(rel, act) ==
  IF act = rel THEN "pass"
  ELSE IF rel = "eq" /\ act # "eq" THEN "None"
  ELSE IF rel \in {"ge", "le"} /\ act = "eq" THEN "pass"
  ELSE IF rel \in {"gt", "ge"} /\ act = "lt" THEN "next"
  ELSE IF rel = "gt" /\ act = "eq" THEN "next"
  ELSE IF rel = "lt" /\ act = "gt" THEN "prev"
  ELSE IF rel = "lt" /\ act = "eq" THEN "prev"
  ELSE "pass"

\* the relation table after the descent: which cursor call, if any, is made
FindAdjust(rel, act) ==
  IF act = rel THEN "pass"
  ELSE IF rel = "eq" /\ act # "eq" THEN "None"
  ELSE IF rel \in {"ge", "le"} /\ act = "eq" THEN "pass"
  ELSE IF rel \in {"gt", "ge"} /\ act = "lt" THEN "next"
  ELSE IF rel = "gt" /\ act = "eq" THEN "next"
  ELSE IF rel \in {"lt", "le"} /\ act = "gt" THEN "prev"
  ELSE IF rel = "lt" /\ act = "eq" THEN "prev"
  ELSE "pass"

\* what find returns after the descent d: how is the cursor call the table
\* asks for, nx and pv what cursor.next() and cursor.prev() would do
FindResult(d, how, nx, pv) ==
  [cursor |-> how # "None",
   act |-> d.act,
   err |-> IF how = "next" THEN nx.err
           ELSE IF how = "prev" THEN pv.err
           ELSE "none",
   stack |-> IF how = "next" THEN nx.stack
             ELSE IF how = "prev" THEN pv.stack
             ELSE IF how = "None" THEN <<>>
             ELSE d.stack]

\* find after the descent d
FindFrom(t, rel, d) ==
  FindResult(d, FindAdjust(rel, d.act), CursorNext(t, d.stack), CursorPrev(t, d.stack))

\* BTree.find: [cursor: whether a Cursor (not None) is returned, stack, act]
BTreeFind(t, rel, key) == FindFrom(t, rel, Descend(t, t.firstindex, key, <<>>))

Rels == {"eq", "lt", "le", "gt", "ge"}

----------------------------------------------------------------------------
(* ID0File: the typed overlay *)

\* self.wordsize, from idb.magic
wordsize(mg) == IF mg = "IDA2" THEN 8 ELSE 4

\* A Python int argument is held as a sign and the big-endian bytes of its
\* magnitude without leading zeros, so that it may exceed 2^31
RECURSIVE MagOf(_)
MagOf(m) == IF m = 0 THEN <<>> ELSE Append(MagOf(m \div 256), m % 256)

NumOf(n) == [neg |-> n < 0, mag |-> MagOf(IF n < 0 THEN -n ELSE n)]

Zeros(w) == [i \in 1..w |-> 0]

\* 2^(8w-1) and 2^(8w)
HalfRange(w) == <<128>> \o Zeros(w - 1)

FullRange(w) == <<1>> \o Zeros(w)

\* struct.pack range of the unsigned formats 'L' / 'Q': 0 <= x < 2^(8w)
FitsUnsigned(x, w) == ~x.neg /\ Len(x.mag) <= w

\* struct.pack range of the signed formats 'l' / 'q': -2^(8w-1) <= x < 2^(8w-1)
FitsSigned(x, w) ==
  \/ Len(x.mag) < w
  \/ Len(x.mag) = w /\ x.mag[1] < 128
  \/ x.neg /\ x.mag = HalfRange(w)

PadLeft(mag, w) == Zeros(w - Len(mag)) \o mag

\* the bytes of 2^(8 Len(b)) - b, for b # 0
RECURSIVE Inc(_)
Inc(b) == IF b = <<>> THEN <<>>
          ELSE IF Last(b) = 255 THEN Append(Inc(Front(b)), 0)
          ELSE Append(Front(b), Last(b) + 1)

Negate(b) == Inc([i \in 1..Len(b) |-> 255 - b[i]])

\* struct.pack('>L' / '>Q', x)
PackUnsigned(x, w) == PadLeft(x.mag, w)

\* struct.pack('>l' / '>q', x): two's complement
PackSigned(x, w) ==
  IF x.neg THEN Negate(PadLeft(x.mag, w)) ELSE PadLeft(x.mag, w)

\* struct.pack of a bytes argument under the format 's': its first byte, or a
\* zero byte when it is empty
PackS(b) == IF b = <<>> THEN <<0>> ELSE <<b[1]>>

\* whether struct.pack accepts the arguments of makekey (it raises
\* struct.error for a number outside the range of its format)
CanPack(mg, args) ==
  /\ Len(args) >= 1 => FitsUnsigned(args[1], wordsize(mg))
  /\ Len(args) >= 3 => FitsSigned(args[3], wordsize(mg))

\* makekey with the tag packed before the node id
makekey_TagFirst(mg, args) ==
  <<46>>
  \o (IF Len(args) >= 2 THEN PackS(args[2]) ELSE <<>>)
  \o (IF Len(args) >= 1 THEN PackUnsigned(args[1], wordsize(mg)) ELSE <<>>)
  \o (IF Len(args) >= 3 THEN PackSigned(args[3], wordsize(mg)) ELSE <<>>)

\* makekey(*args): struct.pack(self.keyfmt[:2+len(args)], 0x2e, *args) with
\* keyfmt = ">B" + fmt + "s" + fmt.lower(); args = (node id[, tag[, sub-key]])
makekey(mg, args) ==
  <<46>>
  \o (IF Len(args) >= 1 THEN PackUnsigned(args[1], wordsize(mg)) ELSE <<>>)
  \o (IF Len(args) >= 2 THEN PackS(args[2]) ELSE <<>>)
  \o (IF Len(args) >= 3 THEN PackSigned(args[3], wordsize(mg)) ELSE <<>>)

RetNone == [kind |-> "None", val |-> <<>>, num |-> 0, exc |-> "none"]

RetBytes(b) == [kind |-> "bytes", val |-> b, num |-> 0, exc |-> "none"]

RetInt(n) == [kind |-> "int", val |-> <<>>, num |-> n, exc |-> "none"]

Raise(e) == [kind |-> "raise", val |-> <<>>, num |-> 0, exc |-> e]

\* struct.unpack of little-endian unsigned bytes
RECURSIVE LE(_)
LE(b) == IF b = <<>> THEN 0 ELSE b[1] + 256 * LE(Tail(b))

\* a call of makekey: the key, or struct.error
Id0MakeKey(mg, args) ==
  IF ~CanPack(mg, args) THEN Raise("struct.error") ELSE RetBytes(makekey(mg, args))

\* if cur: return cur.getval()
BytesOf(t, r) == IF r.cursor THEN RetBytes(getval(t, r.stack)) ELSE RetNone

\* bytes(*args): find('eq', makekey(*args)); the value, or None
Id0Bytes(t, mg, args) ==
  IF ~CanPack(mg, args) THEN Raise("struct.error")
  ELSE BytesOf(t, BTreeFind(t, "eq", makekey(mg, args)))

\* int(), from data = self.bytes(*args): the value of 1, 2, 4 or 8 bytes as a
\* little-endian number; for another length it prints a message and falls off
\* the end (None)
IntOf(data) ==
  IF data.kind = "raise" THEN data
  ELSE IF data.kind = "None" THEN RetNone
  ELSE IF Len(data.val) \in {1, 2, 4, 8} THEN RetInt(LE(data.val))
  ELSE RetNone

\* int(*args)
Id0Int(t, mg, args) == IntOf(Id0Bytes(t, mg, args))

\* data.rstrip(b"\x00")
RECURSIVE RStripZero(_)
RStripZero(b) ==
  IF b # <<>> /\ Last(b) = 0 THEN RStripZero(Front(b)) ELSE b

\* string(), from data = self.bytes(*args): the value without its trailing
\* zero bytes, decoded (the values of the model are ASCII, which decodes to
\* itself)
StringOf(data) ==
  IF data.kind = "raise" THEN data
  ELSE IF data.kind = "None" THEN RetNone
  ELSE RetBytes(RStripZero(data.val))

\* string(*args)
Id0String(t, mg, args) == StringOf(Id0Bytes(t, mg, args))

\* nodeByName(name): find('eq', b'N' + name); the value unpacked as one word
NodeOf(t, mg, r) ==
  IF ~r.cursor THEN RetNone
  ELSE IF Len(getval(t, r.stack)) # wordsize(mg) THEN Raise("struct.error")
  ELSE RetInt(LE(getval(t, r.stack)))

Id0NodeByName(t, mg, name) == NodeOf(t, mg, BTreeFind(t, "eq", <<78>> \o name))

\* nextkey(key): key[:-1] + struct.pack("B", key[-1] + 1); pack raises when the
\* byte is 0xFF, unpack_from when the key is empty
nextkey(key) ==
  IF key = <<>> \/ Last(key) = 255 THEN [err |-> "struct.error", key |-> <<>>]
  ELSE [err |-> "none", key |-> Append(Front(key), Last(key) + 1)]

\* blob(): while cur.getkey() < endkey: data += cur.getval(); cur.next()
RECURSIVE BlobLoop(_, _, _, _)
BlobLoop(t, st, endkey, data) ==
  IF ~CursorDefined(t, st) THEN Raise("IndexError")
  ELSE IF KeyLess(getkey(t, st), endkey)
  THEN BlobLoop(t, CursorNext(t, st).stack, endkey, data \o getval(t, st))
  ELSE RetBytes(data)

\* blob(), from startkey: endkey = self.nextkey(startkey);
\* cur = self.btree.find('ge', startkey); then the loop
BlobOf(t, startkey, endkey) ==
  IF endkey.err # "none" THEN Raise(endkey.err)
  ELSE BlobLoop(t, BTreeFind(t, "ge", startkey).stack, endkey.key, <<>>)

\* blob(*args)
Id0Blob(t, mg, args) ==
  IF ~CanPack(mg, args) THEN Raise("struct.error")
  ELSE BlobOf(t, makekey(mg, args), nextkey(makekey(mg, args)))

----------------------------------------------------------------------------
(* Trees: page layouts whose entries name the rank of the record they hold *)

Leaf(slots) == [preceeding |-> 0,
                index |-> [i \in 1..Len(slots) |-> [page |-> 0, slot |-> slots[i]]]]

Index(prec, ents) == [preceeding |-> prec,
                      index |-> [i \in 1..Len(ents) |->
                                   [page |-> ents[i][1], slot |-> ents[i][2]]]]

\* page 0 is the tree's header page; the root is page 1
Layouts ==
  { (1 :> Leaf(<<>>)),
    (1 :> Leaf(<<1>>)),
    (1 :> Leaf(<<1, 2, 3>>)),
    (1 :> Index(2, <<<<3, 2>>>>) @@ 2 :> Leaf(<<1>>) @@ 3 :> Leaf(<<3>>)),
    (1 :> Index(2, <<<<3, 3>>, <<4, 6>>>>)
       @@ 2 :> Leaf(<<1, 2>>) @@ 3 :> Leaf(<<4, 5>>) @@ 4 :> Leaf(<<7>>)),
    (1 :> Index(2, <<<<3, 4>>>>)
       @@ 2 :> Index(4, <<<<5, 2>>>>) @@ 3 :> Index(6, <<<<7, 6>>>>)
       @@ 4 :> Leaf(<<1>>) @@ 5 :> Leaf(<<3>>)
       @@ 6 :> Leaf(<<5>>) @@ 7 :> Leaf(<<7>>)) }

SlotCount(layout) ==
  Cardinality({ <<p, i>> : p \in DOMAIN layout, i \in 1..7 } \cap
              { <<p, i>> \in (DOMAIN layout) \X (1..7) : i <= Len(layout[p].index) })

\* the value stored with key k in the cursor trees
ValFor(k) == <<Len(k)>> \o k

\* the decoded pages of a layout holding the records recs (ascending by key)
MakeTree(layout, recs) ==
  [firstindex |-> 1,
   pages |-> [p \in DOMAIN layout |->
                [preceeding |-> layout[p].preceeding,
                 index |-> [i \in 1..Len(layout[p].index) |->
                              [page |-> layout[p].index[i].page,
                               key |-> recs[layout[p].index[i].slot].key,
                               val |-> recs[layout[p].index[i].slot].val]]]]]

RecsOf(S) == LET s == SortKeys(S) IN [i \in 1..Len(s) |-> [key |-> s[i], val |-> ValFor(s[i])]]

Trees ==
  { MakeTree(l, RecsOf(S)) :
      <<l, S>> \in { x \in Layouts \X SUBSET KeyUniverse :
                       Cardinality(x[2]) = SlotCount(x[1]) } }

\* every record of the tree, as a set
Records(t) ==
  { [key |-> t.pages[p].index[i].key, val |-> t.pages[p].index[i].val] :
      <<p, i>> \in { x \in (DOMAIN t.pages) \X (1..7) : x[2] <= Len(t.pages[x[1]].index) } }

StoredKeys(t) == { r.key : r \in Records(t) }

----------------------------------------------------------------------------
(* FileSection over a parent file object *)

\* the length of the parent file
FileLen == 4

\* the parent's contents: the bytes "0123..."
FileData == [i \in 1..FileLen |-> 47 + i]

Windows == {1, 2}

Closed == [open |-> FALSE, start |-> 0, end |-> 0, curpos |-> 0]

NoCall == [op |-> "none", w |-> 0, n |-> 0, pos0 |-> 0, data |-> <<>>,
           raised |-> FALSE]

Min(a, b) == IF a < b THEN a ELSE b

\* fh.read(want) of the parent: the bytes from its position, short at end of file
ParentRead(pos, want) == SubSeq(FileData, pos + 1, Min(pos + want, FileLen))

\* want = min(size, self.end-self.start - self.curpos), without the start
Want_NoStart(win, size) == Min(size, win.end - win.curpos)

\* want = min(size, self.end-self.start - self.curpos)
Want(win, size) == Min(size, win.end - win.start - win.curpos)

\* isvalidpos without its lower bound
isvalidpos_NoLower(win, offset) == offset <= win.end - win.start

\* isvalidpos(offset): 0 <= offset <= self.end-self.start
isvalidpos(win, offset) == 0 <= offset /\ offset <= win.end - win.start

\* the position a seek(offset, whence) asks for
SeekTarget(win, offset, whence) ==
  IF whence = 0 THEN offset
  ELSE IF whence = 1 THEN win.curpos + offset
  ELSE win.end - win.start + offset

----------------------------------------------------------------------------
(* The cursor specification: find(), then next() / prev() on the cursor *)

NoQ == [rel |-> "none", key |-> <<>>, act |-> "none"]

NoTrail == [on |-> FALSE, keys |-> <<>>]

NoOv == [op |-> "none", args |-> <<>>, res |-> RetNone]

\* no cursor yet
NoCursor ==
  /\ stack = <<>>
  /\ cur = "unset"
  /\ q = NoQ
  /\ ops = <<>>
  /\ prev1 = <<>>
  /\ prev2 = <<>>
  /\ err = "none"
  /\ trail = NoTrail

\* no FileSection is open
NoWindows ==
  /\ fpos = 0
  /\ wins = [w \in Windows |-> Closed]
  /\ fsl = NoCall

\* binary_search is not running
NoSearch ==
  /\ bs_a = <<>>
  /\ bs_k = <<>>
  /\ bs_first = 0
  /\ bs_last = 0
  /\ bs_pc = "idle"
  /\ bs_n = 0
  /\ bs_ret = -1

\* no ID0File call was made
NoOverlay ==
  /\ magic = "IDA1"
  /\ ov = NoOv

Init ==
  /\ db \in Trees
  /\ NoCursor
  /\ NoWindows
  /\ NoSearch
  /\ NoOverlay

\* cur = db.find(rel, key): find() builds a new Cursor, and a behaviour follows
\* that one Cursor
Find(rel, key) ==
  LET r == BTreeFind(db, rel, key) IN
    /\ cur = "unset"
    /\ stack' = r.stack
    /\ cur' = IF r.cursor THEN "cursor" ELSE "none"
    /\ q' = [rel |-> rel, key |-> key, act |-> r.act]
    /\ ops' = <<>>
    /\ prev1' = <<>>
    /\ prev2' = <<>>
    /\ err' = r.err
    /\ trail' = IF rel = "ge" /\ key = <<>> /\ CursorDefined(db, r.stack)
                THEN [on |-> TRUE, keys |-> <<getkey(db, r.stack)>>]
                ELSE NoTrail
    /\ UNCHANGED <<db, fsvars, bsvars, ovvars>>

Last2(s) == IF Len(s) <= 2 THEN s ELSE SubSeq(s, Len(s) - 1, Len(s))

\* cur.next()
Next_ ==
  LET r == CursorNext(db, stack) IN
    /\ cur = "cursor"
    /\ stack' = r.stack
    /\ err' = r.err
    /\ ops' = Last2(Append(ops, "next"))
    /\ prev1' = stack
    /\ prev2' = prev1
    /\ q' = NoQ
    /\ trail' = IF trail.on /\ r.err = "none" /\ CursorDefined(db, r.stack)
                THEN [on |-> TRUE, keys |-> Append(trail.keys, getkey(db, r.stack))]
                ELSE IF trail.on /\ r.err = "none" /\ eof(r.stack)
                THEN trail
                ELSE NoTrail
    /\ UNCHANGED <<db, cur, fsvars, bsvars, ovvars>>

\* cur.prev()
Prev ==
  LET r == CursorPrev(db, stack) IN
    /\ cur = "cursor"
    /\ stack' = r.stack
    /\ err' = r.err
    /\ ops' = Last2(Append(ops, "prev"))
    /\ prev1' = stack
    /\ prev2' = prev1
    /\ q' = NoQ
    /\ trail' = NoTrail
    /\ UNCHANGED <<db, cur, fsvars, bsvars, ovvars>>

Next ==
  \/ \E rel \in Rels, key \in KeyUniverse : Find(rel, key)
  \/ Next_
  \/ Prev

Spec == Init /\ [][Next]_vars

----------------------------------------------------------------------------
(* The same calls on trees whose records are placed in the pages in any order *)

\* the number of keys the records of these trees are drawn from
SepKeys == 5

SepKeyUniverse == { KeyOf(i) : i \in 0..(SepKeys - 1) }

\* a root index page with one entry, and one with two; a record in each leaf
SepLayouts ==
  { (1 :> Index(2, <<<<3, 2>>>>) @@ 2 :> Leaf(<<1>>) @@ 3 :> Leaf(<<3>>)),
    (1 :> Index(2, <<<<3, 2>>, <<4, 4>>>>)
       @@ 2 :> Leaf(<<1>>) @@ 3 :> Leaf(<<3>>) @@ 4 :> Leaf(<<5>>)) }

\* the records of S in every order
Shuffles(S) ==
  { [i \in 1..Cardinality(S) |-> RecsOf(S)[f[i]]] :
      f \in Permutations(1..Cardinality(S)) }

SepTrees ==
  { MakeTree(x[1], x[2]) :
      x \in UNION { UNION { {l} \X Shuffles(S) :
                             S \in { T \in SUBSET SepKeyUniverse :
                                       Cardinality(T) = SlotCount(l) } } :
                    l \in SepLayouts } }

InitSep ==
  /\ db \in SepTrees
  /\ NoCursor
  /\ NoWindows
  /\ NoSearch
  /\ NoOverlay

SpecSep == InitSep /\ [][Next]_vars

----------------------------------------------------------------------------
(* FileSection: the calls *)

\* FileSection(fh, start, end)
FsOpen(w, start, end) ==
  /\ ~wins[w].open
  /\ \A v \in Windows : v < w => wins[v].open
  /\ wins' = [wins EXCEPT ![w] = [open |-> TRUE, start |-> start, end |-> end,
                                  curpos |-> 0]]
  /\ fpos' = start
  /\ fsl' = [NoCall EXCEPT !.op = "open", !.w = w]
  /\ UNCHANGED <<treevars, bsvars, ovvars>>

\* FileSection.read(size)
FsRead(w, size) ==
  LET win == wins[w]
      want == Want(win, size)
      data == IF want <= 0 THEN <<>> ELSE ParentRead(fpos, want)
  IN /\ win.open
     /\ wins' = [wins EXCEPT ![w].curpos = win.curpos + Len(data)]
     /\ fpos' = fpos + Len(data)
     /\ fsl' = [op |-> "read", w |-> w, n |-> size,
                pos0 |-> win.curpos, data |-> data, raised |-> FALSE]
     /\ UNCHANGED <<treevars, bsvars, ovvars>>

\* FileSection.seek(offset, whence)
FsSeek(w, offset, whence) ==
  LET win == wins[w]
      target == SeekTarget(win, offset, whence)
  IN /\ win.open
     /\ IF isvalidpos(win, target)
        THEN /\ wins' = [wins EXCEPT ![w].curpos = target]
             /\ fpos' = target + win.start
        ELSE UNCHANGED <<wins, fpos>>
     /\ fsl' = [op |-> "seek", w |-> w,
                n |-> IF target < 0 THEN -1
                      ELSE IF target > win.end - win.start THEN 1 ELSE 0,
                pos0 |-> 0, data |-> <<>>,
                raised |-> ~isvalidpos(win, target)]
     /\ UNCHANGED <<treevars, bsvars, ovvars>>

\* FileSection.tell()
tell(w) == wins[w].curpos

InitFS ==
  /\ db = MakeTree(1 :> Leaf(<<>>), <<>>)
  /\ NoCursor
  /\ NoWindows
  /\ NoSearch
  /\ NoOverlay

NextFS ==
  \/ \E w \in Windows, start \in 0..FileLen, end \in 0..FileLen :
        start <= end /\ FsOpen(w, start, end)
  \/ \E w \in Windows, size \in -1..(FileLen + 1) : FsRead(w, size)
  \/ \E w \in Windows, offset \in -(FileLen + 1)..(FileLen + 1), whence \in 0..2 :
        FsSeek(w, offset, whence)

SpecFS == InitFS /\ [][NextFS]_vars

----------------------------------------------------------------------------
(* binary_search as a loop *)

\* the longest list binary_search is run on
MaxLen == 4

SearchLists == { RecsOf(S) : S \in { T \in SUBSET KeyUniverse : Cardinality(T) <= MaxLen } }

InitBS ==
  /\ db = MakeTree(1 :> Leaf(<<>>), <<>>)
  /\ NoCursor
  /\ NoWindows
  /\ bs_a \in SearchLists
  /\ bs_k \in KeyUniverse
  /\ bs_first = 0
  /\ bs_last = Len(bs_a)
  /\ bs_pc = "loop"
  /\ bs_n = 0
  /\ bs_ret = -1
  /\ NoOverlay

\* one pass of the while first<last loop
BsIter ==
  /\ bs_pc = "loop"
  /\ bs_first < bs_last
  /\ bs_first' = bs_step(bs_a, bs_k, bs_first, bs_last).first
  /\ bs_last' = bs_step(bs_a, bs_k, bs_first, bs_last).last
  /\ bs_n' = bs_n + 1
  /\ UNCHANGED <<bs_a, bs_k, bs_pc, bs_ret, treevars, fsvars, ovvars>>

\* return first-1
BsReturn ==
  /\ bs_pc = "loop"
  /\ ~(bs_first < bs_last)
  /\ bs_ret' = bs_first - 1
  /\ bs_pc' = "done"
  /\ UNCHANGED <<bs_a, bs_k, bs_first, bs_last, bs_n, treevars, fsvars, ovvars>>

NextBS == BsIter \/ BsReturn

SpecBS == InitBS /\ [][NextBS]_vars

----------------------------------------------------------------------------
(* The overlay specification: one ID0File call on an opened database *)

\* node ids are 1..MaxNode
MaxNode == 2

Magics == {"IDA1", "IDA2"}

NodeIds == 1..MaxNode

\* the sub-keys: two neighbours, and one whose last byte is 0xFF
SubKeys == {0, 1, 255}

\* the tag 'S'
Tags == {<<83>>}

\* the names looked up: 'a', 'b'
Names == {<<97>>, <<98>>}

\* the argument lists of bytes / int / string / blob
ArgLists ==
  { <<NumOf(n)>> : n \in NodeIds }
  \cup { <<NumOf(n), tg>> : n \in NodeIds, tg \in Tags }
  \cup { <<NumOf(n), tg, NumOf(sk)>> : n \in NodeIds, tg \in Tags, sk \in SubKeys }

\* the keys a database may hold: (node, tag) and (node, tag, sub-key) records,
\* and the name record N'a'
OvKeys(mg) ==
  { makekey(mg, a) : a \in { x \in ArgLists : Len(x) >= 2 } } \cup { <<78, 97>> }

\* the values, by the record's rank in the tree: 1, 2, 4, 8, 0, 3 and 9 bytes
OvVals == << <<65>>, <<66, 0>>, <<42, 0, 0, 0>>, <<7, 0, 0, 0, 0, 0, 0, 0>>,
             <<>>, <<67, 68, 0>>, <<69, 70, 71, 72, 73, 74, 75, 76, 77>> >>

OvRecsOf(S) == LET s == SortKeys(S) IN [i \in 1..Len(s) |-> [key |-> s[i], val |-> OvVals[i]]]

OvTrees(mg) ==
  { MakeTree(l, OvRecsOf(S)) :
      <<l, S>> \in { x \in Layouts \X SUBSET OvKeys(mg) :
                       Cardinality(x[2]) = SlotCount(x[1]) } }

InitOV ==
  /\ magic \in Magics
  /\ db \in OvTrees(magic)
  /\ ov = NoOv
  /\ NoCursor
  /\ NoWindows
  /\ NoSearch

\* the calls read the tree and leave it as it is: a behaviour makes one call
OvCall(op, args, res) ==
  /\ ov.op = "none"
  /\ ov' = [op |-> op, args |-> args, res |-> res]
  /\ UNCHANGED <<magic, treevars, fsvars, bsvars>>

OvBytes(args) == OvCall("bytes", args, Id0Bytes(db, magic, args))

OvInt(args) == OvCall("int", args, Id0Int(db, magic, args))

OvString(args) == OvCall("string", args, Id0String(db, magic, args))

OvBlob(args) == OvCall("blob", args, Id0Blob(db, magic, args))

OvNodeByName(name) == OvCall("nodeByName", name, Id0NodeByName(db, magic, name))

NextOV ==
  \/ \E args \in ArgLists : OvBytes(args)
  \/ \E args \in ArgLists : OvInt(args)
  \/ \E args \in ArgLists : OvString(args)
  \/ \E args \in ArgLists : OvBlob(args)
  \/ \E name \in Names : OvNodeByName(name)

SpecOV == InitOV /\ [][NextOV]_vars

----------------------------------------------------------------------------
(* makekey as a function of its arguments *)

Pos(b) == [neg |-> FALSE, mag |-> b]

Neg(b) == [neg |-> TRUE, mag |-> b]

AllOnes(w) == [i \in 1..w |-> 255]

\* the numbers at the ends of the ranges of a w-byte word: 2^(8w-1)-1,
\* 2^(8w-1), 2^(8w)-1, 2^(8w), -2^(8w-1), -2^(8w-1)-1
EdgeNums(w) ==
  { Pos(<<127>> \o AllOnes(w - 1)), Pos(HalfRange(w)), Pos(AllOnes(w)),
    Pos(FullRange(w)), Neg(HalfRange(w)), Neg(<<128>> \o Zeros(w - 2) \o <<1>>) }

\* the numbers makekey is called with
MkNums ==
  { NumOf(n) : n \in {-1, 0, 1, 255, 256} }
  \cup UNION { EdgeNums(wordsize(mg)) : mg \in Magics }

\* the tags 'S' and 'A'
MkTags == {<<83>>, <<65>>}

MkArgLists ==
  { <<n>> : n \in MkNums }
  \cup { <<n, tg>> : n \in MkNums, tg \in MkTags }
  \cup { <<n, tg, sk>> : n \in MkNums, tg \in MkTags, sk \in MkNums }

InitMK ==
  /\ magic \in Magics
  /\ db = MakeTree(1 :> Leaf(<<>>), <<>>)
  /\ ov = NoOv
  /\ NoCursor
  /\ NoWindows
  /\ NoSearch

MkMakeKey(args) == OvCall("makekey", args, Id0MakeKey(magic, args))

NextMK == \E args \in MkArgLists : MkMakeKey(args)

SpecMK == InitMK /\ [][NextMK]_vars

----------------------------------------------------------------------------
(* Claims about the cursor and find *)

SortedKeys(t) == SortKeys(StoredKeys(t))

HasRecords(t) == StoredKeys(t) # {}

\* the value stored with key k
StoredVal(t, k) == (CHOOSE r \in Records(t) : r.key = k).val

\* C1: in a tree holding at least one record, find('ge', b'') followed by next()
\* until eof visits the records in strictly ascending key order, each exactly
\* once: what has been visited is always the first records of the sorted list,
\* so there are never more visits than records, and at eof it is all of them.
C1_FullScan ==
  /\ (HasRecords(db) /\ q.rel = "ge" /\ q.key = <<>>) =>
        (trail.on /\ trail.keys = <<SortedKeys(db)[1]>>)
  /\ trail.on =>
        /\ Len(trail.keys) <= Cardinality(StoredKeys(db))
        /\ trail.keys = SubSeq(SortedKeys(db), 1, Len(trail.keys))
        /\ err = "none"
        /\ CursorDefined(db, stack) \/ eof(stack)
        /\ (eof(stack) => trail.keys = SortedKeys(db))

\* a scan of the three-level tree (records in index pages too) has reached eof
C1_Witness ==
  /\ trail.on
  /\ eof(stack)
  /\ Cardinality(DOMAIN db.pages) = 7
  /\ Len(trail.keys) = 7

Matches(rel, k, key) ==
  IF rel = "lt" THEN KeyLess(k, key)
  ELSE IF rel = "le" THEN KeyLess(k, key) \/ k = key
  ELSE IF rel = "ge" THEN KeyLess(key, k) \/ k = key
  ELSE IF rel = "gt" THEN KeyLess(key, k)
  ELSE k = key

Candidates(t, rel, key) == { k \in StoredKeys(t) : Matches(rel, k, key) }

\* the greatest candidate for lt / le, the least for ge / gt
Best(rel, C) ==
  IF rel \in {"lt", "le"} THEN CHOOSE k \in C : \A j \in C : ~KeyLess(k, j)
  ELSE CHOOSE k \in C : \A j \in C : ~KeyLess(j, k)

\* C2: in a tree holding at least one record, find(rel, k) for rel in lt, le,
\* ge, gt returns a cursor on the greatest stored key < k (<= k), the least
\* stored key >= k (> k); when there is no such key the cursor is eof.
C2_Relational ==
  (HasRecords(db) /\ q.rel \in {"lt", "le", "ge", "gt"}) =>
     /\ cur = "cursor"
     /\ err = "none"
     /\ IF Candidates(db, q.rel, q.key) = {}
        THEN eof(stack)
        ELSE /\ CursorDefined(db, stack)
             /\ Last(stack).ix >= 0
             /\ getkey(db, stack) = Best(q.rel, Candidates(db, q.rel, q.key))

\* find('lt', k) for a key k stored in the root index page of the three-level
\* tree: the answer is at the bottom of the rightmost spine of a child
C2_Witness ==
  /\ q.rel = "lt"
  /\ q.act = "eq"
  /\ Len(stack) = 3
  /\ CursorDefined(db, stack)

\* C3: find('eq', k) returns a cursor on the record (k, v) when k is stored (in
\* a leaf or an index page), and None when k is not stored.
C3_FindEq ==
  (q.rel = "eq") =>
     IF q.key \in StoredKeys(db)
     THEN /\ cur = "cursor"
          /\ CursorDefined(db, stack)
          /\ Last(stack).ix >= 0
          /\ getkey(db, stack) = q.key
          /\ getval(db, stack) = StoredVal(db, q.key)
     ELSE cur = "none"

\* find('eq', k) found k in an index page
C3_Witness ==
  /\ q.rel = "eq"
  /\ cur = "cursor"
  /\ stack # <<>>
  /\ isindex(readpage(db, Last(stack).page))
  /\ getkey(db, stack) = q.key

\* C4 as stated: from a cursor on any record, next() then prev(), and prev()
\* then next(), end with the stack the cursor had before.
C4_RoundTripAnyRecord ==
  (Len(ops) = 2 /\ ops[1] # ops[2] /\ CursorDefined(db, prev2)) => stack = prev2

\* C4, amended: the round trip restores the stack when the first of the two
\* calls does not leave the cursor eof (the record is not the last one for
\* next() ; prev(), not the first one for prev() ; next()); when it does, the
\* second call raises IndexError and the stack stays empty.
C4_RoundTrip ==
  (Len(ops) = 2 /\ ops[1] # ops[2] /\ CursorDefined(db, prev2)) =>
     IF eof(prev1)
     THEN stack = <<>> /\ err = "IndexError"
     ELSE stack = prev2 /\ err = "none"

\* next() climbed from the end of a leaf to a record of an index page, and
\* prev() went back down to that leaf's last record
C4_Witness ==
  /\ ops = <<"next", "prev">>
  /\ CursorDefined(db, prev2)
  /\ stack = prev2
  /\ Len(prev1) < Len(stack)
  /\ Last(stack).ix > 0

\* the top frame of the stack names an entry of its page
OnRecord(t, st) ==
  /\ st # <<>>
  /\ 0 <= Last(st).ix
  /\ Last(st).ix < Len(readpage(t, Last(st).page).index)

\* C12: in every tree, one whose root leaf holds no record too, the cursor
\* find returns and every cursor next() / prev() leave is eof or has a top
\* frame (page, ix) with 0 <= ix < len(page.index), where getkey() and
\* getval() are defined.
C12_PositionInvariant ==
  cur = "cursor" => (eof(stack) \/ OnRecord(db, stack))

\* the keys stored in the page pn and in the pages below it
RECURSIVE SubtreeKeys(_, _)
SubtreeKeys(t, pn) ==
  LET pg == readpage(t, pn) IN
    { pg.index[i].key : i \in 1..Len(pg.index) }
    \cup (IF isindex(pg)
          THEN SubtreeKeys(t, pg.preceeding)
               \cup UNION { SubtreeKeys(t, pg.index[i].page) : i \in 1..Len(pg.index) }
          ELSE {})

\* the keys find('ge', b'') ; next() ; next() ... visits, n calls at most
RECURSIVE ScanFrom(_, _, _)
ScanFrom(t, st, n) ==
  IF n = 0 \/ ~CursorDefined(t, st) THEN <<>>
  ELSE <<getkey(t, st)>> \o ScanFrom(t, CursorNext(t, st).stack, n - 1)

\* find('eq', k) finds every stored key k, and the full scan is ascending
Navigable(t) ==
  /\ \A k \in StoredKeys(t) :
        LET r == BTreeFind(t, "eq", k) IN
          r.cursor /\ CursorDefined(t, r.stack) /\ getkey(t, r.stack) = k
  /\ ScanFrom(t, BTreeFind(t, "ge", <<>>).stack, Cardinality(StoredKeys(t)) + 1)
        = SortedKeys(t)

IndexPages(t) == { pn \in DOMAIN t.pages : isindex(readpage(t, pn)) }

\* every index entry's key is below every key of the subtree of its page, which
\* are below the key of the next entry; the keys of the subtree of preceeding
\* are below the key of the first entry; the keys of a page ascend
LowerSeparators(t) ==
  /\ \A pn \in DOMAIN t.pages :
        \A i \in 1..(Len(readpage(t, pn).index) - 1) :
           KeyLess(readpage(t, pn).index[i].key, readpage(t, pn).index[i + 1].key)
  /\ \A pn \in IndexPages(t) :
        LET pg == readpage(t, pn) IN
          /\ \A k \in SubtreeKeys(t, pg.preceeding) : KeyLess(k, pg.index[1].key)
          /\ \A i \in 1..Len(pg.index) :
                \A k \in SubtreeKeys(t, pg.index[i].page) :
                   /\ KeyLess(pg.index[i].key, k)
                   /\ i < Len(pg.index) => KeyLess(k, pg.index[i + 1].key)

\* the claim's ordering: the keys of the subtree of an entry's page are <= the
\* entry's key, and those of the next entry's page are above it
UpperSeparators(t) ==
  \A pn \in IndexPages(t) :
     LET pg == readpage(t, pn) IN
       \A i \in 1..Len(pg.index) :
          /\ \A k \in SubtreeKeys(t, pg.index[i].page) :
                KeyLess(k, pg.index[i].key) \/ k = pg.index[i].key
          /\ i < Len(pg.index) =>
                \A k \in SubtreeKeys(t, pg.index[i + 1].page) :
                   KeyLess(pg.index[i].key, k)

\* the frames find pushed on its way down for the last query
DescentStack == Descend(db, db.firstindex, q.key, <<>>).stack

\* the index entry a frame of the descent went down from
DescentEntry(f) == readpage(db, f.page).index[f.ix + 1]

\* C14 as stated: in a tree where find('eq') finds every stored key and the
\* scan ascends, the keys under an entry's page are <= the entry's key and
\* those under the next entry's page are above it, and find goes down into an
\* entry's page only for a query q <= the entry's key.
C14_UpperSeparator ==
  Navigable(db) =>
     /\ UpperSeparators(db)
     /\ q.rel # "none" =>
           \A j \in 1..(Len(DescentStack) - 1) :
              DescentStack[j].ix >= 0 =>
                 (KeyLess(q.key, DescentEntry(DescentStack[j]).key)
                    \/ q.key = DescentEntry(DescentStack[j]).key)

\* C14, amended: find('eq') finds every stored key and the scan ascends
\* exactly in the trees where each entry's key is below the keys under its
\* page, which are below the next entry's key (and the keys under preceeding
\* are below the first entry's key); there find goes down into an entry's page
\* only for a query above the entry's key and below the next entry's key, and
\* into preceeding only for a query below the first entry's key.
C14_LowerSeparator ==
  /\ Navigable(db) <=> LowerSeparators(db)
  /\ (Navigable(db) /\ q.rel # "none") =>
        \A j \in 1..(Len(DescentStack) - 1) :
           LET pg == readpage(db, DescentStack[j].page)
               ix == DescentStack[j].ix
           IN IF ix >= 0
              THEN /\ KeyLess(pg.index[ix + 1].key, q.key)
                   /\ ix + 2 <= Len(pg.index) => KeyLess(q.key, pg.index[ix + 2].key)
              ELSE KeyLess(q.key, pg.index[1].key)

\* in a tree whose root has two entries find('eq') went down into the page of
\* the first entry and found the key there
C14_Witness ==
  /\ Navigable(db)
  /\ Len(readpage(db, db.firstindex).index) = 2
  /\ q.rel = "eq"
  /\ cur = "cursor"
  /\ Len(stack) = 2
  /\ stack[1].ix = 0
  /\ stack = DescentStack

\* C16: a next() or prev() made on an eof cursor (empty stack) raises and
\* leaves the stack empty, so no run of next() / prev() calls brings an eof
\* cursor back onto a record.
C16_EofFinal ==
  /\ (ops # <<>> /\ eof(prev1)) => (eof(stack) /\ err = "IndexError")
  /\ (Len(ops) = 2 /\ eof(prev2)) => (eof(prev1) /\ eof(stack) /\ err = "IndexError")

\* next() left the cursor eof after the last record of a tree with index
\* pages, and one more next() raised
C16_Witness ==
  /\ ops = <<"next", "next">>
  /\ Len(prev2) > 1
  /\ eof(prev1)
  /\ eof(stack)
  /\ err = "IndexError"


----------------------------------------------------------------------------
(* Claims about FileSection *)

\* the bytes of the parent a read(n) at window position p is to return
OwnBytes(win, p, n) ==
  SubSeq(FileData, win.start + p + 1, win.start + Min(p + n, win.end - win.start))

OnlyUser(w) == \A v \in Windows \ {w} : ~wins[v].open

\* C5: after every read and seek, failed or not, tell() of every window is in
\* [0, end-start], and every seek whose target lies outside that range raises.
C5_WindowSafety ==
  /\ \A w \in Windows : wins[w].open =>
        (0 <= tell(w) /\ tell(w) <= wins[w].end - wins[w].start)
  /\ fsl.op = "seek" => (fsl.n # 0 => fsl.raised)

\* a seek from a position inside the window to before its start raised
C5_Witness ==
  /\ fsl.op = "seek"
  /\ fsl.n < 0
  /\ fsl.raised
  /\ tell(fsl.w) > 0

\* C6: a read(n) of a window that is the only user of its parent returns the
\* parent's bytes [start+p, start+min(p+n, end-start)) and advances the position
\* by what it returned; at p = end-start that is the empty string.
C6_ClampedRead ==
  (fsl.op = "read" /\ OnlyUser(fsl.w)) =>
     /\ fsl.data = OwnBytes(wins[fsl.w], fsl.pos0, fsl.n)
     /\ tell(fsl.w) = fsl.pos0 + Len(fsl.data)
     /\ (fsl.pos0 = wins[fsl.w].end - wins[fsl.w].start => fsl.data = <<>>)

\* a read from the middle of a window that does not start at 0 was cut short
\* at the window's end, before the end of the parent
C6_Witness ==
  /\ fsl.op = "read"
  /\ OnlyUser(fsl.w)
  /\ wins[fsl.w].start > 0
  /\ wins[fsl.w].end < FileLen
  /\ fsl.pos0 > 0
  /\ fsl.data # <<>>
  /\ Len(fsl.data) < fsl.n

\* C7: with several windows over one parent, every read(n) of a window returns
\* the bytes of that window's own range at its own position.
C7_NonInterference ==
  fsl.op = "read" => fsl.data = OwnBytes(wins[fsl.w], fsl.pos0, fsl.n)

----------------------------------------------------------------------------
(* Claims about binary_search *)

\* the largest 0-based index i with a[i].key <= k, or -1
FloorIndex(a, k) ==
  LET le == { i \in 1..Len(a) : KeyLess(a[i].key, k) \/ a[i].key = k } IN
    IF le = {} THEN -1 ELSE (CHOOSE i \in le : \A j \in le : j <= i) - 1

\* C8: on a strictly ascending list binary_search returns the largest index i
\* with keys[i] <= key, or -1; the loop ends: first <= last always, and each
\* pass shrinks last - first, so there are at most len(a) passes.
C8_Floor ==
  /\ bs_pc = "done" => bs_ret = FloorIndex(bs_a, bs_k)
  /\ bs_pc \in {"loop", "done"} =>
        /\ 0 <= bs_first /\ bs_first <= bs_last /\ bs_last <= Len(bs_a)
        /\ bs_n + (bs_last - bs_first) <= Len(bs_a)

\* a search of a list of three or more keys for a key that is absent and lies
\* between two of them has returned
C8_Witness ==
  /\ bs_pc = "done"
  /\ Len(bs_a) >= 3
  /\ bs_ret = 1
  /\ bs_a[2].key # bs_k
  /\ bs_n >= 2


----------------------------------------------------------------------------
(* Claims about the typed overlay *)

\* the stored keys in [startkey, endkey), ascending
InRangeKeys(t, startkey, endkey) ==
  SortKeys({ k \in StoredKeys(t) :
               (k = startkey \/ KeyLess(startkey, k)) /\ KeyLess(k, endkey) })

RECURSIVE ConcatVals(_, _)
ConcatVals(t, ks) ==
  IF ks = <<>> THEN <<>> ELSE StoredVal(t, ks[1]) \o ConcatVals(t, Tail(ks))

\* the start key of the last call does not end in 0xFF: next_key is its last
\* byte plus one
PlainStart == Last(makekey(magic, ov.args)) # 255

EndKey == Append(Front(makekey(magic, ov.args)), Last(makekey(magic, ov.args)) + 1)

\* C9: in a tree that holds records, blob() returns the concatenation, in
\* ascending key order, of the values of the records with key in
\* [start_key, next_key(start_key)), wherever that range lies in the tree (at
\* its end, or empty, too).
C9_BlobConcat ==
  (ov.op = "blob" /\ PlainStart /\ HasRecords(db)) =>
     /\ ov.res.kind = "bytes"
     /\ ov.res.val = ConcatVals(db, InRangeKeys(db, makekey(magic, ov.args), EndKey))

\* the last call looked up a key (a key range, for blob) the tree holds no
\* record of
Miss ==
  IF ov.op = "nodeByName" THEN (<<78>> \o ov.args) \notin StoredKeys(db)
  ELSE IF ov.op = "blob"
  THEN PlainStart /\ InRangeKeys(db, makekey(magic, ov.args), EndKey) = <<>>
  ELSE ov.op \in {"bytes", "int", "string"}
       /\ makekey(magic, ov.args) \notin StoredKeys(db)

\* C10: bytes, int, string, blob and nodeByName return None, and raise nothing,
\* when the tree (one that holds records) holds no record for the key (for
\* blob: none in the range).
C10_NoneOnMiss ==
  (Miss /\ HasRecords(db)) => ov.res.kind = "None"

\* C11: int() on a key the tree holds returns the little-endian unsigned value
\* of the record's value when that is 1, 2, 4 or 8 bytes long, and raises an
\* error for every other length, so that such a record is told from a missing
\* one.
C11_IntLengthRule ==
  (ov.op = "int" /\ makekey(magic, ov.args) \in StoredKeys(db)) =>
     IF Len(StoredVal(db, makekey(magic, ov.args))) \in {1, 2, 4, 8}
     THEN /\ ov.res.kind = "int"
          /\ ov.res.num = LE(StoredVal(db, makekey(magic, ov.args)))
     ELSE ov.res.kind = "raise"

\* C15: for the start key of every blob() call nextkey gives a key of the same
\* length, with the same bytes but the last, which is the start key's last
\* byte plus one (no carry); when the start key ends in 0xFF nextkey still
\* gives an end key and blob() returns a byte string.
C15_NextKeyNoCarry ==
  ov.op = "blob" =>
     /\ nextkey(makekey(magic, ov.args)).err = "none"
     /\ Len(nextkey(makekey(magic, ov.args)).key) = Len(makekey(magic, ov.args))
     /\ Front(nextkey(makekey(magic, ov.args)).key) = Front(makekey(magic, ov.args))
     /\ Last(nextkey(makekey(magic, ov.args)).key) = Last(makekey(magic, ov.args)) + 1
     /\ ~PlainStart => ov.res.kind = "bytes"

----------------------------------------------------------------------------
(* Claims about makekey *)

\* a < b for magnitudes without leading zeros
MagLess(a, b) == Len(a) < Len(b) \/ (Len(a) = Len(b) /\ KeyLess(a, b))

\* 0 <= x < 2^(8w)
InUnsigned(x, w) == ~x.neg /\ MagLess(x.mag, FullRange(w))

\* -2^(8w-1) <= x < 2^(8w-1)
InSigned(x, w) ==
  IF x.neg THEN ~MagLess(HalfRange(w), x.mag) ELSE MagLess(x.mag, HalfRange(w))

RECURSIVE Strip(_)
Strip(b) == IF b # <<>> /\ b[1] = 0 THEN Strip(Tail(b)) ELSE b

\* the number a field holds, read as big-endian unsigned
UnsignedOf(f) == Pos(Strip(f))

\* the number a field holds, read as big-endian two's complement
SignedOf(f) == IF f[1] < 128 THEN Pos(Strip(f)) ELSE Neg(Strip(Negate(f)))

\* C13 as stated: for a node id and a sub-key in [0, 2^N) the key is 0x2E, the
\* tag byte, the node id, then the sub-key as a big-endian unsigned N-bit
\* number.
C13_TagThenId ==
  (ov.op = "makekey" /\ Len(ov.args) = 3
     /\ InUnsigned(ov.args[1], wordsize(magic))
     /\ InUnsigned(ov.args[3], wordsize(magic))) =>
     /\ ov.res.kind = "bytes"
     /\ Len(ov.res.val) = 2 + 2 * wordsize(magic)
     /\ ov.res.val[1] = 46
     /\ ov.res.val[2] = ov.args[2][1]
     /\ UnsignedOf(SubSeq(ov.res.val, 3, 2 + wordsize(magic))) = ov.args[1]
     /\ UnsignedOf(SubSeq(ov.res.val, 3 + wordsize(magic),
                          2 + 2 * wordsize(magic))) = ov.args[3]

\* C13, amended: the key is 0x2E, the node id as a big-endian unsigned N-bit
\* number, the tag byte, then the sub-key as a big-endian two's complement
\* N-bit number, for a node id in [0, 2^N) and a sub-key in
\* [-2^(N-1), 2^(N-1)); for any other node id or sub-key (a sub-key in
\* [2^(N-1), 2^N) too) makekey raises struct.error.
C13_KeyLayout ==
  (ov.op = "makekey" /\ Len(ov.args) = 3) =>
     IF InUnsigned(ov.args[1], wordsize(magic))
        /\ InSigned(ov.args[3], wordsize(magic))
     THEN /\ ov.res.kind = "bytes"
          /\ Len(ov.res.val) = 2 + 2 * wordsize(magic)
          /\ ov.res.val[1] = 46
          /\ UnsignedOf(SubSeq(ov.res.val, 2, 1 + wordsize(magic))) = ov.args[1]
          /\ ov.res.val[2 + wordsize(magic)] = ov.args[2][1]
          /\ SignedOf(SubSeq(ov.res.val, 3 + wordsize(magic),
                             2 + 2 * wordsize(magic))) = ov.args[3]
     ELSE ov.res.kind = "raise" /\ ov.res.exc = "struct.error"

\* a key was built for the node id 2^32 - 1 and the sub-key -1
C13_Witness ==
  /\ ov.op = "makekey"
  /\ Len(ov.args) = 3
  /\ ov.args[1] = Pos(AllOnes(4))
  /\ ov.args[3] = NumOf(-1)
  /\ ov.res.kind = "bytes"
  /\ ov.res.val[Len(ov.res.val)] = 255

=============================================================================
